---- MODULE Spec2Model ----
(***************************************************************************)
(* The session registry and authentication handlers of neutron's API       *)
(* (package api: Auth, AuthInfo, AuthCookies, DeleteAuth and the onClose    *)
(* closure that Auth registers with every Session).                        *)
(*                                                                         *)
(* Go strings are TLA+ strings; "" is the empty string and the nil error.  *)
(* An Authorization header value is a sequence of atoms, an atom being     *)
(* either one space " " or a maximal run of non-space characters, so that  *)
(* strings.SplitN can be computed on it.                                   *)
(***************************************************************************)
EXTENDS Naturals, Sequences, FiniteSets, Bags, TLC

VARIABLES
  sessions,       \* api.sessions: map from Session.ID to Session
  closeCount,     \* per session ID: how often its onClose closure was invoked
  deletedEvents,  \* per user ID: how often backend.DeleteAllEvents was called
  resp,           \* what the last handler call wrote to ctx (status, body, cookie)
  call,           \* the last handler call: its inputs and its collaborator calls
  issued,         \* the indices NewSession has drawn IDs and tokens for
  procs,          \* the goroutines in flight, each at a statement of its handler
  crashed         \* the Go runtime stopped the process (fatal error on a map race)

vars == <<sessions, closeCount, deletedEvents, resp, call, issued, procs, crashed>>

----------------------------------------------------------------------------
(* Bounds of the model *)

MaxSessions == 2
NumUsers == 2
MaxKeys == 2
NumProcs == 2

(* Program constants *)

ExpiresIn == 360000

TokenBearer == "Bearer"

----------------------------------------------------------------------------
(* Collaborators' value spaces *)

Users == {"u" \o ToString(i) : i \in 1..NumUsers}

Idx == 1..MaxSessions

SessionID(i) == "id" \o ToString(i)

SessionToken(i) == "tok" \o ToString(i)

IDs == {SessionID(i) : i \in Idx}

Tokens == {SessionToken(i) : i \in Idx}

\* err.Error() of a failed backend.Auth
CredErrors == {"unknown user", "wrong password"}

PopulateErrors == {"cannot load addresses"}

EncryptErrors == {"bad key"}

EventErrors == {"no event"}

EventIDs == {"ev1", "ev2"}

\* The i-th key of user u's main address
KeyOf(u, i) == [ID |-> "key" \o ToString(i) \o "-" \o u,
                PrivateKey |-> "priv" \o ToString(i) \o "-" \o u]

\* addr.Keys of user u's main address when it holds n keys
MainAddressKeys(u, n) == [i \in 1..n |-> KeyOf(u, i)]

\* kp.Encrypt(token): the token wrapped under the key
Encrypt(kp, token) == "enc[" \o kp.ID \o "](" \o token \o ")"

----------------------------------------------------------------------------
(* Session and registry *)

NewSession(userID, i) ==
  [ID |-> SessionID(i), UserID |-> userID, Token |-> SessionToken(i)]

\* A faulty variant of Insert: the entry is keyed by the token, not the ID
InsertByToken(S, s) ==
  [k \in (DOMAIN S) \cup {s.Token} |-> IF k = s.Token THEN s ELSE S[k]]

\* api.sessions[s.ID] = s
Insert(S, s) == [k \in (DOMAIN S) \cup {s.ID} |-> IF k = s.ID THEN s ELSE S[k]]

\* delete(api.sessions, key)
Delete(S, key) == [k \in (DOMAIN S) \ {key} |-> S[k]]

\* the range loop of the onClose closure: some remaining session has this user
HasSessionOf(S, userID) == \E k \in DOMAIN S : S[k].UserID = userID

EmptyRegistry == [k \in {} |-> k]

----------------------------------------------------------------------------
(* Responses *)

\* ctx.SetCookie(name, value, maxAge, path, domain, secure, httpOnly)
SetCookie(name, value, maxAge, path, secure, httpOnly) ==
  [name |-> name, value |-> value, maxAge |-> maxAge, path |-> path,
   secure |-> secure, httpOnly |-> httpOnly]

NoCookie == SetCookie("", <<>>, 0, "", FALSE, FALSE)

\* The zero value of every response field
ZeroBody ==
  [kind |-> "", ResponseCode |-> "", Error |-> "", ErrorDescription |-> "",
   AccessToken |-> "", ExpiresIn |-> 0, TokenType |-> "", Scope |-> "",
   Uid |-> "", RefreshToken |-> "", PrivateKey |-> "", EventID |-> "",
   SessionToken |-> ""]

ErrorResp(code, error, description) ==
  [ZeroBody EXCEPT !.kind = "ErrorResp", !.ResponseCode = code,
                   !.Error = error, !.ErrorDescription = description]

\* newErrorResp(err)
NewErrorResp(description) == ErrorResp("InternalServerError", "", description)

Response(status, body, cookie) == [status |-> status, body |-> body, cookie |-> cookie]

NoResponse == Response(0, ZeroBody, NoCookie)

\* What the collaborators answered to an Auth call; all zero for another call
NoAnswers == [credErr |-> "", popErr |-> "", nKeys |-> 0, encErr |-> "", evErr |-> "",
              ev |-> ""]

NoCall == [op |-> "none", user |-> "", sid |-> "", token |-> "", header |-> <<>>,
           steps |-> <<>>, answers |-> NoAnswers]

----------------------------------------------------------------------------
(* Api.Auth *)

\* A faulty variant of AuthSuccessBody: Uid carries the token, not the ID
AuthSuccessBodyTokenAsUid(session, kp, encryptedToken, lastEventID) ==
  [ZeroBody EXCEPT !.kind = "AuthResp", !.ResponseCode = "Ok",
                   !.AccessToken = encryptedToken, !.ExpiresIn = ExpiresIn,
                   !.TokenType = TokenBearer,
                   !.Scope = "full mail payments reset keys",
                   !.Uid = session.Token, !.RefreshToken = "refresh_token",
                   !.PrivateKey = kp.PrivateKey, !.EventID = lastEventID]

\* lines 131-141: the success body
AuthSuccessBody(session, kp, encryptedToken, lastEventID) ==
  [ZeroBody EXCEPT !.kind = "AuthResp", !.ResponseCode = "Ok",
                   !.AccessToken = encryptedToken, !.ExpiresIn = ExpiresIn,
                   !.TokenType = TokenBearer,
                   !.Scope = "full mail payments reset keys",
                   !.Uid = session.ID, !.RefreshToken = "refresh_token",
                   !.PrivateKey = kp.PrivateKey, !.EventID = lastEventID]

\* A faulty variant of CredentialFailure: answered like the other failures,
\* through newErrorResp
CredentialFailureGeneric(credErr) ==
  Response(200, NewErrorResp(credErr), NoCookie)

\* lines 77-84: the answer to a failed backend.Auth
CredentialFailure(credErr) ==
  Response(200, ErrorResp("Unauthorized", "invalid_grant", credErr), NoCookie)

\* A faulty variant of EventFailure: answered with HTTP 200 like the other
\* failures
EventFailureOk(evErr) ==
  Response(200, NewErrorResp(evErr), NoCookie)

\* lines 126-129: the answer to a failed backend.GetLastEvent
EventFailure(evErr) ==
  Response(500, NewErrorResp(evErr), NoCookie)

\* A faulty variant of FirstKey: the last key of the address
LastKey(keys) == keys[Len(keys)]

\* line 114: kp := addr.Keys[0]
FirstKey(keys) == keys[1]

\* A faulty variant of AuthTail: the return after the failed kp.Encrypt is
\* missing, so the handler goes on to GetLastEvent and answers a second time
AuthTailFallsThrough(session, keys, encErr, evErr, ev) ==
  IF Len(keys) = 0 THEN
    [steps |-> <<"GetMainAddress", "ctx.JSON">>,
     resp |-> Response(200, NewErrorResp("User has no private key"), NoCookie)]
  ELSE
    LET kp == FirstKey(keys)
        encryptedToken == Encrypt(kp, session.Token)
    IN IF encErr # "" THEN
         [steps |-> <<"GetMainAddress", "Encrypt", "ctx.JSON", "GetLastEvent", "ctx.JSON">>,
          resp |-> Response(200, ErrorResp("InternalServerError", "invalid_key", encErr),
                            NoCookie)]
       ELSE IF evErr # "" THEN
         [steps |-> <<"GetMainAddress", "Encrypt", "GetLastEvent", "ctx.JSON">>,
          resp |-> EventFailure(evErr)]
       ELSE
         [steps |-> <<"GetMainAddress", "Encrypt", "GetLastEvent", "ctx.JSON">>,
          resp |-> Response(200, AuthSuccessBody(session, kp, encryptedToken, ev),
                            NoCookie)]

\* lines 108-141: what Auth does once the session is in the registry. It reads
\* and writes nothing shared. keys is addr.Keys, encErr and evErr the errors of
\* kp.Encrypt and backend.GetLastEvent ("" is nil), ev the last event's ID.
\* steps lists the calls made, in order; "ctx.JSON" is a response written.
AuthTail(session, keys, encErr, evErr, ev) ==
  IF Len(keys) = 0 THEN
    [steps |-> <<"GetMainAddress", "ctx.JSON">>,
     resp |-> Response(200, NewErrorResp("User has no private key"), NoCookie)]
  ELSE
    LET kp == FirstKey(keys)
        encryptedToken == Encrypt(kp, session.Token)
    IN IF encErr # "" THEN
         [steps |-> <<"GetMainAddress", "Encrypt", "ctx.JSON">>,
          resp |-> Response(200, ErrorResp("InternalServerError", "invalid_key", encErr),
                            NoCookie)]
       ELSE IF evErr # "" THEN
         [steps |-> <<"GetMainAddress", "Encrypt", "GetLastEvent", "ctx.JSON">>,
          resp |-> EventFailure(evErr)]
       ELSE
         [steps |-> <<"GetMainAddress", "Encrypt", "GetLastEvent", "ctx.JSON">>,
          resp |-> Response(200, AuthSuccessBody(session, kp, encryptedToken, ev),
                            NoCookie)]

\* A faulty variant of AuthRun: the Session is created and registered before
\* populateCurrentUser is checked
AuthRunSessionFirst(S, u, i, credErr, popErr, keys, encErr, evErr, ev) ==
  IF credErr # "" THEN
    [sessions |-> S, sid |-> "", steps |-> <<"backend.Auth", "ctx.JSON">>,
     resp |-> CredentialFailure(credErr)]
  ELSE
    LET session == NewSession(u, i)
        tail == AuthTail(session, keys, encErr, evErr, ev)
    IN IF popErr # "" THEN
         [sessions |-> Insert(S, session), sid |-> session.ID,
          steps |-> <<"backend.Auth", "NewSession", "populateCurrentUser", "ctx.JSON">>,
          resp |-> Response(200, NewErrorResp(popErr), NoCookie)]
       ELSE
         [sessions |-> Insert(S, session), sid |-> session.ID,
          steps |-> <<"backend.Auth", "NewSession", "populateCurrentUser">> \o tail.steps,
          resp |-> tail.resp]

\* The whole of Api.Auth on registry S: backend.Auth answers user u or credErr,
\* populateCurrentUser answers popErr, NewSession draws index i.
AuthRun(S, u, i, credErr, popErr, keys, encErr, evErr, ev) ==
  IF credErr # "" THEN
    [sessions |-> S, sid |-> "", steps |-> <<"backend.Auth", "ctx.JSON">>,
     resp |-> CredentialFailure(credErr)]
  ELSE IF popErr # "" THEN
    [sessions |-> S, sid |-> "", steps |-> <<"backend.Auth", "populateCurrentUser", "ctx.JSON">>,
     resp |-> Response(200, NewErrorResp(popErr), NoCookie)]
  ELSE
    LET session == NewSession(u, i)
        tail == AuthTail(session, keys, encErr, evErr, ev)
    IN [sessions |-> Insert(S, session), sid |-> session.ID,
        steps |-> <<"backend.Auth", "populateCurrentUser", "NewSession">> \o tail.steps,
        resp |-> tail.resp]

\* Whether this Auth call reaches NewSession
CreatesSession(credErr, popErr) == credErr = "" /\ popErr = ""

Auth(u, i, credErr, popErr, nKeys, encErr, evErr, ev) ==
  LET r == AuthRun(sessions, u, i, credErr, popErr, MainAddressKeys(u, nKeys),
                   encErr, evErr, ev)
  IN /\ CreatesSession(credErr, popErr) => i \notin issued
     /\ sessions' = r.sessions
     /\ resp' = r.resp
     /\ issued' = IF CreatesSession(credErr, popErr) THEN issued \cup {i} ELSE issued
     /\ call' = [NoCall EXCEPT !.op = "Auth", !.user = IF credErr = "" THEN u ELSE "",
                               !.sid = r.sid, !.steps = r.steps,
                               !.answers = [credErr |-> credErr, popErr |-> popErr,
                                            nKeys |-> nKeys, encErr |-> encErr,
                                            evErr |-> evErr, ev |-> ev]]
     /\ UNCHANGED <<closeCount, deletedEvents, procs, crashed>>

----------------------------------------------------------------------------
(* The onClose closure Auth hands to NewSession (lines 93-105). session is the
   captured variable: the closure reads its ID and UserID, not the map entry. *)

\* A faulty variant of OnCloseDelete: the entry is looked up by the token
OnCloseDeleteByToken(S, session) == Delete(S, session.Token)

\* line 94
OnCloseDelete(S, session) == Delete(S, session.ID)

\* A faulty variant of OnCloseStops: the range loop is skipped
OnCloseStopsUnchecked(S, session) == TRUE

\* lines 97-104: whether backend.DeleteAllEvents(session.UserID) is reached on
\* the registry S that the range loop reads
OnCloseStops(S, session) == ~HasSessionOf(S, session.UserID)

\* DeleteAllEvents bookkeeping: one more call for user u
CountDeleteAll(D, u) == [D EXCEPT ![u] = @ + 1]

\* The Session invokes its onClose: at most once per Session, while it is live
CloseSession(id) ==
  /\ id \in DOMAIN sessions
  /\ closeCount[id] = 0
  /\ LET session == sessions[id]
         S1 == OnCloseDelete(sessions, session)
     IN /\ sessions' = S1
        /\ deletedEvents' = IF OnCloseStops(S1, session)
                              THEN CountDeleteAll(deletedEvents, session.UserID)
                              ELSE deletedEvents
        /\ call' = [NoCall EXCEPT !.op = "onClose", !.user = session.UserID,
                                  !.sid = id]
  /\ closeCount' = [closeCount EXCEPT ![id] = @ + 1]
  /\ resp' = NoResponse
  /\ UNCHANGED <<issued, procs, crashed>>

----------------------------------------------------------------------------
(* Api.AuthInfo *)

AuthInfo ==
  /\ resp' = Response(200, [ZeroBody EXCEPT !.kind = "AuthInfoResp",
                                            !.ResponseCode = "Ok"], NoCookie)
  /\ call' = [NoCall EXCEPT !.op = "AuthInfo"]
  /\ UNCHANGED <<sessions, closeCount, deletedEvents, issued, procs, crashed>>

----------------------------------------------------------------------------
(* Api.AuthCookies *)

\* The index of the first " " of s, 0 when it has none
FirstSpace(s) ==
  IF \E j \in 1..Len(s) : s[j] = " "
    THEN CHOOSE j \in 1..Len(s) : s[j] = " " /\ \A k \in 1..(j - 1) : s[k] # " "
    ELSE 0

\* A faulty variant of SplitN2: the first two fields of strings.Split(s, " "),
\* the fields after them dropped
SplitFirstTwo(s) ==
  LET j == FirstSpace(s)
      rest == SubSeq(s, j + 1, Len(s))
      k == FirstSpace(rest)
  IN IF j = 0 THEN <<s>>
     ELSE <<SubSeq(s, 1, j - 1), IF k = 0 THEN rest ELSE SubSeq(rest, 1, k - 1)>>

\* strings.SplitN(s, " ", 2)
SplitN2(s) ==
  LET j == FirstSpace(s)
  IN IF j = 0 THEN <<s>> ELSE <<SubSeq(s, 1, j - 1), SubSeq(s, j + 1, Len(s))>>

\* A string without spaces as a header value
Str(a) == IF a = "" THEN <<>> ELSE <<a>>

\* A faulty variant of MarshalAuthCookie: the Uid field without its json tag
MarshalAuthCookieUntagged(accessToken, uid) ==
  <<"{", "AccessToken", ":", accessToken, ",", "Uid", ":", uid, "}">>

\* json.Marshal(&AuthCookie{AccessToken, Uid}): the Uid field is tagged "UID"
MarshalAuthCookie(accessToken, uid) ==
  <<"{", "AccessToken", ":", accessToken, ",", "UID", ":", uid, "}">>

\* The value of field name in a marshalled object, "" when it has no such field
JsonField(v, name) ==
  IF \E j \in 1..Len(v) : v[j] = name /\ j + 2 <= Len(v) /\ v[j + 1] = ":"
    THEN v[(CHOOSE j \in 1..Len(v) : v[j] = name /\ j + 2 <= Len(v) /\ v[j + 1] = ":") + 2]
    ELSE ""

BadRequest(error, description) ==
  Response(200, ErrorResp("BadRequest", error, description), NoCookie)

\* A faulty variant of AuthCookiesSuccess: the cookie's UID is filled with the
\* token
AuthCookiesSuccessTokenAsUid(session) ==
  Response(200,
           [ZeroBody EXCEPT !.kind = "AuthCookiesResp", !.ResponseCode = "Ok",
                            !.SessionToken = session.Token],
           SetCookie("AUTH-" \o session.Token,
                     MarshalAuthCookie(session.Token, session.Token),
                     0, "/api/", FALSE, TRUE))

\* lines 203-212
AuthCookiesSuccess(session) ==
  Response(200,
           [ZeroBody EXCEPT !.kind = "AuthCookiesResp", !.ResponseCode = "Ok",
                            !.SessionToken = session.Token],
           SetCookie("AUTH-" \o session.Token,
                     MarshalAuthCookie(session.Token, session.ID),
                     0, "/api/", FALSE, TRUE))

\* A faulty variant of AuthorizationMatches: the two conditions joined by &&,
\* so that one matching part is enough
AuthorizationMatchesEither(parts, session) ==
  ~(parts[1] # Str(TokenBearer) /\ parts[2] # Str(session.Token))

\* lines 191-201: the scheme and token check on the two parts of the header
AuthorizationMatches(parts, session) ==
  ~(parts[1] # Str(TokenBearer) \/ parts[2] # Str(session.Token))

\* The whole of Api.AuthCookies on registry S: uid is api.getUid(ctx), auth is
\* ctx.Req.Header["Authorization"] (<<>> when the header is absent)
AuthCookiesRun(S, uid, auth) ==
  IF uid = "" THEN BadRequest("invalid_grant", "No uid provided")
  ELSE IF uid \notin DOMAIN S THEN BadRequest("invalid_session", "Invalid UID")
  ELSE IF Len(auth) = 0
    THEN BadRequest("invalid_authorization", "Invalid authorization header")
  ELSE
    LET session == S[uid]
        parts == SplitN2(auth[1])
    IN IF Len(parts) # 2
         THEN BadRequest("invalid_authorization", "Invalid authorization header")
       ELSE IF ~AuthorizationMatches(parts, session)
         THEN BadRequest("invalid_authorization", "Invalid authorization header")
       ELSE AuthCookiesSuccess(session)

AuthCookies(uid, auth) ==
  /\ resp' = AuthCookiesRun(sessions, uid, auth)
  /\ call' = [NoCall EXCEPT !.op = "AuthCookies", !.sid = uid, !.header = auth]
  /\ UNCHANGED <<sessions, closeCount, deletedEvents, issued, procs, crashed>>

----------------------------------------------------------------------------
(* Api.DeleteAuth *)

\* A variant of DeleteAuthKey: the ID of the Session that holds the token; the
\* entry is then deleted from the map directly, past its onClose
DeleteAuthKeyOfSession(sessionToken) ==
  IF \E i \in Idx : SessionToken(i) = sessionToken
    THEN SessionID(CHOOSE i \in Idx : SessionToken(i) = sessionToken)
    ELSE "sessionToken"

\* line 220: the key DeleteAuth deletes for the request's session token
DeleteAuthKey(sessionToken) == "sessionToken"

\* A variant of DeleteAuthRun: the entries whose token is the request's session
\* token are dropped from the map
DeleteAuthRunByToken(S, sessionToken) ==
  [id \in {k \in DOMAIN S : S[k].Token # sessionToken} |-> S[id]]

\* lines 216-221: the registry after DeleteAuth
DeleteAuthRun(S, sessionToken) ==
  IF sessionToken # "" THEN Delete(S, DeleteAuthKey(sessionToken)) ELSE S

\* A faulty variant of DeleteAuthResponse: a request without session token is
\* answered with an error
DeleteAuthResponseStrict(sessionToken) ==
  IF sessionToken # ""
    THEN Response(200, [ZeroBody EXCEPT !.kind = "Resp", !.ResponseCode = "Ok"],
                  SetCookie("AUTH-" \o sessionToken, <<>>, 0, "/api/", FALSE, TRUE))
    ELSE BadRequest("invalid_session", "No session token provided")

\* lines 217-223: the cookie cleared when a token is present, and the answer
DeleteAuthResponse(sessionToken) ==
  Response(200, [ZeroBody EXCEPT !.kind = "Resp", !.ResponseCode = "Ok"],
           IF sessionToken # ""
             THEN SetCookie("AUTH-" \o sessionToken, <<>>, 0, "/api/", FALSE, TRUE)
             ELSE NoCookie)

DeleteAuth(sessionToken) ==
  /\ sessions' = DeleteAuthRun(sessions, sessionToken)
  /\ resp' = DeleteAuthResponse(sessionToken)
  /\ call' = [NoCall EXCEPT !.op = "DeleteAuth", !.token = sessionToken]
  /\ UNCHANGED <<closeCount, deletedEvents, issued, procs, crashed>>

----------------------------------------------------------------------------
(* Requests *)

\* Values of one Authorization header
HeaderValues ==
  {<<>>, <<"Bearer">>}
  \cup {<<scheme, " ", t>> : scheme \in {"Bearer", "Basic"}, t \in Tokens}
  \cup {<<"Bearer", " ", t, " ", "extra">> : t \in Tokens}

\* ctx.Req.Header["Authorization"]
AuthHeaders == {<<>>} \cup {<<v>> : v \in HeaderValues}


Init ==
  /\ sessions = EmptyRegistry
  /\ closeCount = [id \in IDs |-> 0]
  /\ deletedEvents = [u \in Users |-> 0]
  /\ resp = NoResponse
  /\ call = NoCall
  /\ issued = {}
  /\ procs = EmptyBag
  /\ crashed = FALSE

\* What the collaborators answer to one Auth call: the user backend.Auth
\* resolves, the index NewSession draws, the errors ("" is nil), the number of
\* keys of the main address and the last event's ID. An answer the call never
\* asks for (it returned before) is listed once, with its zero value.
AuthAnswers ==
  LET All == [u : Users, i : Idx, credErr : {""} \cup CredErrors,
              popErr : {""} \cup PopulateErrors, nKeys : 0..MaxKeys,
              encErr : {""} \cup EncryptErrors, evErr : {""} \cup EventErrors,
              ev : EventIDs]
      Asked(a) ==
        /\ a.credErr # "" => a.u = "u1" /\ a.popErr = ""
        /\ (a.credErr # "" \/ a.popErr # "") => a.i = 1 /\ a.nKeys = 0
        /\ a.nKeys = 0 => a.encErr = ""
        /\ a.encErr # "" => a.evErr = ""
        /\ a.evErr # "" => a.ev = "ev1"
        /\ (a.credErr # "" \/ a.popErr # "" \/ a.nKeys = 0 \/ a.encErr # "") => a.ev = "ev1"
  IN {a \in All : Asked(a)}

Next ==
  \/ \E a \in AuthAnswers :
       Auth(a.u, a.i, a.credErr, a.popErr, a.nKeys, a.encErr, a.evErr, a.ev)
  \/ AuthInfo
  \/ \E uid \in {""} \cup IDs, auth \in AuthHeaders : AuthCookies(uid, auth)
  \/ \E sessionToken \in {""} \cup Tokens : DeleteAuth(sessionToken)
  \/ \E id \in IDs : CloseSession(id)

\* Requests served one at a time: every handler call runs to its response
Spec == Init /\ [][Next]_vars

----------------------------------------------------------------------------
(* Handlers and closures as goroutines: one step per statement that reads or
   writes api.sessions or calls backend.DeleteAllEvents. The registry has no
   lock, so the steps of different goroutines interleave freely. Goroutines
   have no identity: procs is the bag of those in flight. *)

Goroutine(op, pc, session, token) ==
  [op |-> op, pc |-> pc, session |-> session, token |-> token]

Running == BagToSet(procs)

CanSpawn == ~crashed /\ BagCardinality(procs) < NumProcs

Spawn(g) == procs (+) SetToBag({g})

Goto(g, pc) == (procs (-) SetToBag({g})) (+) SetToBag({[g EXCEPT !.pc = pc]})

Finish(g) == procs (-) SetToBag({g})

\* Auth, lines 76-93: credentials verified, user populated, NewSession drawn
GoAuth(u, i) ==
  /\ CanSpawn
  /\ i \notin issued
  /\ issued' = issued \cup {i}
  /\ procs' = Spawn(Goroutine("Auth", "insert", NewSession(u, i), ""))
  /\ UNCHANGED <<sessions, closeCount, deletedEvents, resp, call, crashed>>

\* Auth, line 106
GoAuthInsert(g) ==
  /\ ~crashed /\ g.pc = "insert"
  /\ sessions' = Insert(sessions, g.session)
  /\ procs' = Goto(g, "tail")
  /\ UNCHANGED <<closeCount, deletedEvents, resp, call, issued, crashed>>

\* Auth, lines 108-141: nothing shared is read or written; the handler returns
GoAuthTail(g) ==
  /\ ~crashed /\ g.pc = "tail"
  /\ procs' = Finish(g)
  /\ UNCHANGED <<sessions, closeCount, deletedEvents, resp, call, issued, crashed>>

\* The Session invokes its onClose: at most once per Session, while it is live
GoClose(id) ==
  /\ CanSpawn
  /\ id \in DOMAIN sessions
  /\ closeCount[id] = 0
  /\ closeCount' = [closeCount EXCEPT ![id] = @ + 1]
  /\ procs' = Spawn(Goroutine("onClose", "delete", sessions[id], ""))
  /\ UNCHANGED <<sessions, deletedEvents, resp, call, issued, crashed>>

\* onClose, line 94
GoCloseDelete(g) ==
  /\ ~crashed /\ g.pc = "delete"
  /\ sessions' = OnCloseDelete(sessions, g.session)
  /\ procs' = Goto(g, "scan")
  /\ UNCHANGED <<closeCount, deletedEvents, resp, call, issued, crashed>>

\* onClose, lines 97-101: the range loop over the registry
GoCloseScan(g) ==
  /\ ~crashed /\ g.pc = "scan"
  /\ procs' = IF OnCloseStops(sessions, g.session) THEN Goto(g, "stop") ELSE Finish(g)
  /\ UNCHANGED <<sessions, closeCount, deletedEvents, resp, call, issued, crashed>>

\* onClose, line 104
GoCloseStop(g) ==
  /\ ~crashed /\ g.pc = "stop"
  /\ deletedEvents' = CountDeleteAll(deletedEvents, g.session.UserID)
  /\ procs' = Finish(g)
  /\ UNCHANGED <<sessions, closeCount, resp, call, issued, crashed>>

\* DeleteAuth, lines 216-218
GoDeleteAuth(sessionToken) ==
  /\ CanSpawn
  /\ procs' = Spawn(Goroutine("DeleteAuth", "revoke", NewSession("", 0), sessionToken))
  /\ UNCHANGED <<sessions, closeCount, deletedEvents, resp, call, issued, crashed>>

\* DeleteAuth, lines 217-223
GoDeleteAuthDelete(g) ==
  /\ ~crashed /\ g.pc = "revoke"
  /\ sessions' = DeleteAuthRun(sessions, g.token)
  /\ procs' = Finish(g)
  /\ UNCHANGED <<closeCount, deletedEvents, resp, call, issued, crashed>>

\* The next statement of g writes the map
MapWrite(g) ==
  \/ g.pc \in {"insert", "delete"}
  \/ g.pc = "revoke" /\ g.token # ""

\* The next statement of g reads or writes the map
MapAccess(g) == MapWrite(g) \/ g.pc = "scan"

\* Where g continues after its map statement
AfterMapWrite(g) ==
  IF g.pc = "insert" THEN Goto(g, "tail")
  ELSE IF g.pc = "delete" THEN Goto(g, "scan")
  ELSE Finish(g)

\* Two goroutines g and h run their map statements at the same time, g
\* writing: a data race
MapRace(g, h) ==
  /\ g # h \/ CopiesIn(g, procs) >= 2
  /\ MapWrite(g) /\ MapAccess(h)

\* The runtime detects the race: fatal error, the process and its goroutines end
RaceFatal(g, h) ==
  /\ ~crashed /\ MapRace(g, h)
  /\ crashed' = TRUE
  /\ procs' = EmptyBag
  /\ UNCHANGED <<sessions, closeCount, deletedEvents, resp, call, issued>>

\* The race goes undetected and g's write is lost
RaceLostWrite(g, h) ==
  /\ ~crashed /\ MapRace(g, h)
  /\ procs' = AfterMapWrite(g)
  /\ UNCHANGED <<sessions, closeCount, deletedEvents, resp, call, issued, crashed>>

NextConc ==
  \/ \E u \in Users, i \in Idx : GoAuth(u, i)
  \/ \E g \in Running : GoAuthInsert(g)
  \/ \E g \in Running : GoAuthTail(g)
  \/ \E id \in IDs : GoClose(id)
  \/ \E g \in Running : GoCloseDelete(g)
  \/ \E g \in Running : GoCloseScan(g)
  \/ \E g \in Running : GoCloseStop(g)
  \/ \E sessionToken \in {""} \cup Tokens : GoDeleteAuth(sessionToken)
  \/ \E g \in Running : GoDeleteAuthDelete(g)
  \/ \E g \in Running, h \in Running : RaceFatal(g, h)
  \/ \E g \in Running, h \in Running : RaceLostWrite(g, h)

\* Requests served concurrently, one goroutine each
SpecConc == Init /\ [][NextConc]_vars

----------------------------------------------------------------------------
(* Properties *)

\* What an Auth call's collaborators answered
VerificationFailed(c) == c.op = "Auth" /\ c.answers.credErr # ""

PopulateFailed(c) == c.op = "Auth" /\ c.answers.credErr = "" /\ c.answers.popErr # ""

DownstreamFailed(c) ==
  /\ c.op = "Auth" /\ c.answers.credErr = "" /\ c.answers.popErr = ""
  /\ c.answers.nKeys = 0 \/ c.answers.encErr # "" \/ c.answers.evErr # ""

\* The IDs a step removes from the registry
Removed == (DOMAIN sessions) \ (DOMAIN sessions')

\* C1: after DeleteAuth was called with a non-empty session token, the registry
\* holds no Session with that token (the Session it belonged to is gone, also
\* after a second call).
C1_RevocationRemovesSession ==
  (call.op = "DeleteAuth" /\ call.token # "")
    => \A id \in DOMAIN sessions : sessions[id].Token # call.token

C3_EventStopCoupling ==
  [][\A u \in Users :
       deletedEvents'[u] =
         deletedEvents[u] +
           (IF /\ \E id \in Removed : sessions[id].UserID = u
               /\ ~HasSessionOf(sessions', u)
              THEN 1 ELSE 0)]_vars

\* C3's case: at least two Sessions were removed and DeleteAllEvents ran once
\* in all, for one user: the first removal left a Session of that user behind
C3_Witness ==
  /\ sessions = EmptyRegistry
  /\ Cardinality({id \in IDs : closeCount[id] = 1}) >= 2
  /\ \E u \in Users : /\ deletedEvents[u] = 1
                      /\ \A v \in Users \ {u} : deletedEvents[v] = 0

\* C4: DeleteAllEvents(u) is never called at a moment when the registry holds a
\* Session of u, under any interleaving of the goroutines.
C4_TeardownAtomic ==
  [][\A u \in Users :
       deletedEvents'[u] > deletedEvents[u] => ~HasSessionOf(sessions, u)]_vars

\* C5: after an Auth call answered with the success response, the returned Uid
\* is a key of the registry and that entry's UserID is the verified user's ID.
C5_UidResolves ==
  (call.op = "Auth" /\ resp.body.ResponseCode = "Ok")
    => /\ resp.body.Uid \in DOMAIN sessions
       /\ sessions[resp.body.Uid].UserID = call.user

\* C5's case: a successful login next to a Session that was there before
C5_Witness ==
  /\ call.op = "Auth" /\ resp.body.ResponseCode = "Ok"
  /\ Cardinality(DOMAIN sessions) >= 2

\* The Auth goroutine that drew index i has not run line 106 yet
InsertPending(i) ==
  \E g \in Running : g.pc = "insert" /\ g.session.ID = SessionID(i)

\* C6: every login that has inserted its Session has an entry of its own under
\* its ID, until that Session's onClose runs: N logins, sequential or concurrent,
\* yield N distinct entries.
C6_UniqueEntries ==
  ~crashed =>
    \A i \in issued :
      (~InsertPending(i) /\ closeCount[SessionID(i)] = 0)
        => /\ SessionID(i) \in DOMAIN sessions
           /\ sessions[SessionID(i)].ID = SessionID(i)

\* C7: an Auth call whose credential verification fails answers Unauthorized,
\* invalid_grant, with the collaborator's message, and leaves the registry as it
\* was; one whose user-context population fails answers an error and leaves the
\* registry as it was.
C7_FailedVerificationCreatesNothing ==
  [][/\ VerificationFailed(call')
          => /\ resp' = Response(200, ErrorResp("Unauthorized", "invalid_grant",
                                                call'.answers.credErr), NoCookie)
             /\ sessions' = sessions
     /\ PopulateFailed(call')
          => /\ resp'.body.kind = "ErrorResp"
             /\ sessions' = sessions]_vars

\* C7's case: verification failed while the registry held a Session
C7_Witness ==
  VerificationFailed(call) /\ sessions # EmptyRegistry

\* C8: after an Auth call that created a Session and then failed (no key,
\* encryption error, last-event error), that Session is not in the registry.
C8_RollbackOnDownstreamFailure ==
  DownstreamFailed(call) => call.sid \notin DOMAIN sessions

\* C9: an Auth call that fails after creating its Session answers an error
\* ("User has no private key" when the main address has no key) and keeps the
\* Session: the registry is the one before plus exactly that entry.
C9_FailedLoginKeepsSession ==
  [][DownstreamFailed(call')
       => /\ resp'.body.kind = "ErrorResp"
          /\ call'.answers.nKeys = 0
               => resp'.body.ErrorDescription = "User has no private key"
          /\ call'.sid \notin DOMAIN sessions
          /\ DOMAIN sessions' = (DOMAIN sessions) \cup {call'.sid}
          /\ Cardinality(DOMAIN sessions') = Cardinality(DOMAIN sessions) + 1
          /\ sessions'[call'.sid].UserID = call'.user
          /\ \A k \in DOMAIN sessions : sessions'[k] = sessions[k]]_vars

\* C9's case: a login for a user without keys failed and its Session is there
C9_Witness ==
  /\ DownstreamFailed(call) /\ call.answers.nKeys = 0
  /\ resp.body.ErrorDescription = "User has no private key"
  /\ call.sid \in DOMAIN sessions

\* The header value "Bearer <token>"
BearerHeader(token) == <<TokenBearer, " ", token>>

\* AuthCookies was called for a live Session with its own token as bearer
PromotesOwnToken ==
  /\ call.op = "AuthCookies"
  /\ call.sid \in DOMAIN sessions
  /\ call.header = <<BearerHeader(sessions[call.sid].Token)>>

\* C10: AuthCookies for a live Session with ID u and token T, called with u and
\* "Authorization: Bearer T", answers Ok with SessionToken T and sets the cookie
\* AUTH-T whose payload has AccessToken T and UID u.
C10_CookieRoundTrip ==
  PromotesOwnToken
    => LET session == sessions[call.sid]
       IN /\ resp.status = 200
          /\ resp.body.ResponseCode = "Ok"
          /\ resp.body.SessionToken = session.Token
          /\ resp.cookie.name = "AUTH-" \o session.Token
          /\ JsonField(resp.cookie.value, "AccessToken") = session.Token
          /\ JsonField(resp.cookie.value, "UID") = call.sid

\* C10's case: a promotion with the Session's own token, another Session live
C10_Witness ==
  PromotesOwnToken /\ Cardinality(DOMAIN sessions) >= 2

\* The Session that AuthCookies looked up is live
PromotesLive == call.op = "AuthCookies" /\ call.sid \in DOMAIN sessions

\* The answer is the BadRequest error with this Error, and no cookie is set
Rejected(error) ==
  /\ resp.status = 200
  /\ resp.body.kind = "ErrorResp"
  /\ resp.body.ResponseCode = "BadRequest"
  /\ resp.body.Error = error
  /\ resp.body.SessionToken = ""
  /\ resp.cookie = NoCookie

\* C11: AuthCookies rejects, in this order: an empty identifier with
\* invalid_grant; an identifier not in the registry with invalid_session; for a
\* live Session a missing header, a scheme other than Bearer, and Bearer with a
\* token that is not this Session's (also another live Session's token) with
\* invalid_authorization. Every rejection is a BadRequest error without cookie.
C11_PromotionRejects ==
  call.op = "AuthCookies"
    => /\ call.sid = "" => Rejected("invalid_grant")
       /\ (call.sid # "" /\ call.sid \notin DOMAIN sessions) => Rejected("invalid_session")
       /\ (PromotesLive /\ call.header = <<>>) => Rejected("invalid_authorization")
       /\ \A scheme \in {"Basic"}, t \in Tokens :
            (PromotesLive /\ call.header = <<<<scheme, " ", t>>>>)
              => Rejected("invalid_authorization")
       /\ \A t \in Tokens :
            (PromotesLive /\ call.header = <<BearerHeader(t)>>
               /\ t # sessions[call.sid].Token)
              => Rejected("invalid_authorization")
       /\ resp.body.kind = "ErrorResp"
            => resp.cookie = NoCookie /\ resp.body.ResponseCode = "BadRequest"

\* C11's case: Bearer with the token of another live Session is rejected
C11_Witness ==
  /\ PromotesLive
  /\ \E id \in (DOMAIN sessions) \ {call.sid} :
       call.header = <<BearerHeader(sessions[id].Token)>>
  /\ Rejected("invalid_authorization")

\* C12: DeleteAuth answers HTTP 200 with the success envelope, with or without
\* a session token in the request, with or without a Session for it.
C12_RevocationAlwaysOk ==
  call.op = "DeleteAuth"
    => /\ resp.status = 200
       /\ resp.body = [ZeroBody EXCEPT !.kind = "Resp", !.ResponseCode = "Ok"]

\* C12's case: a revocation without session token while a Session is live
C12_Witness ==
  /\ call.op = "DeleteAuth" /\ call.token = ""
  /\ sessions # EmptyRegistry
  /\ resp.body.ResponseCode = "Ok"

\* Whether the Auth call c made the call named x
Made(c, x) == \E k \in 1..Len(c.steps) : c.steps[k] = x

\* The step at which the Auth call c failed ("" when every step succeeded)
AuthFailedAt(c) ==
  IF c.answers.credErr # "" THEN "backend.Auth"
  ELSE IF c.answers.popErr # "" THEN "populateCurrentUser"
  ELSE IF c.answers.nKeys = 0 THEN "GetMainAddress"
  ELSE IF c.answers.encErr # "" THEN "Encrypt"
  ELSE IF c.answers.evErr # "" THEN "GetLastEvent"
  ELSE ""

\* C13: Auth writes exactly one response per call, as its last step, and runs
\* no step after the one that failed: no NewSession after a failed backend.Auth
\* or populateCurrentUser, no Encrypt when the key is missing, no GetLastEvent
\* after a failed Encrypt. A failure response carries no access token, Uid,
\* private key or event ID.
C13_AuthShortCircuits ==
  call.op = "Auth"
    => /\ Cardinality({k \in 1..Len(call.steps) : call.steps[k] = "ctx.JSON"}) = 1
       /\ call.steps[Len(call.steps)] = "ctx.JSON"
       /\ AuthFailedAt(call) = "backend.Auth"
            => /\ ~Made(call, "populateCurrentUser") /\ ~Made(call, "NewSession")
               /\ call.sid = ""
       /\ AuthFailedAt(call) = "populateCurrentUser"
            => ~Made(call, "NewSession") /\ call.sid = ""
       /\ AuthFailedAt(call) \in {"backend.Auth", "populateCurrentUser", "GetMainAddress"}
            => ~Made(call, "Encrypt")
       /\ AuthFailedAt(call) # "" /\ AuthFailedAt(call) # "GetLastEvent"
            => ~Made(call, "GetLastEvent")
       /\ AuthFailedAt(call) # ""
            => /\ resp.body.kind = "ErrorResp"
               /\ resp.body.AccessToken = "" /\ resp.body.Uid = ""
               /\ resp.body.PrivateKey = "" /\ resp.body.EventID = ""

\* C13's case: Encrypt failed after the Session was registered, and the call
\* stopped there
C13_Witness ==
  /\ call.op = "Auth" /\ AuthFailedAt(call) = "Encrypt"
  /\ Made(call, "Encrypt") /\ ~Made(call, "GetLastEvent")
  /\ call.sid \in DOMAIN sessions
  /\ resp.body.Error = "invalid_key"

\* C14: a cookie issued by AuthCookies carries the (Token, ID) of the live
\* Session the call named, a Session keeps its fields for as long as it is in
\* the registry, and AuthCookies leaves the registry as it was, whether it
\* issues a cookie or rejects.
C14_CookieMatchesRegistry ==
  [][ /\ call'.op = "AuthCookies"
        => /\ sessions' = sessions
           /\ closeCount' = closeCount
           /\ resp'.cookie # NoCookie
                => /\ call'.sid \in DOMAIN sessions'
                   /\ JsonField(resp'.cookie.value, "AccessToken")
                        = sessions'[call'.sid].Token
                   /\ JsonField(resp'.cookie.value, "UID") = sessions'[call'.sid].ID
                   /\ call'.sid = sessions'[call'.sid].ID
      /\ \A id \in (DOMAIN sessions) \cap (DOMAIN sessions') :
           sessions'[id] = sessions[id] ]_vars

\* C14's case: a cookie issued for one of two live Sessions of the same user
C14_Witness ==
  /\ PromotesLive
  /\ resp.cookie # NoCookie
  /\ JsonField(resp.cookie.value, "UID") = call.sid
  /\ \E id \in (DOMAIN sessions) \ {call.sid} :
       sessions[id].UserID = sessions[call.sid].UserID

\* C15: Auth and AuthCookies answer every failure with HTTP 200 and an error
\* body, except the failure of Auth at GetLastEvent, answered with HTTP 500 and
\* an error body; every success response of the four handlers has status 200.
C15_FailureStatus ==
  /\ call.op = "Auth" /\ AuthFailedAt(call) # ""
       => /\ resp.body.kind = "ErrorResp" /\ resp.body.ResponseCode # "Ok"
          /\ resp.status = IF AuthFailedAt(call) = "GetLastEvent" THEN 500 ELSE 200
  /\ call.op = "AuthCookies" /\ ~PromotesOwnToken
       => /\ resp.body.kind = "ErrorResp" /\ resp.body.ResponseCode # "Ok"
          /\ resp.status = 200
  /\ call.op \in {"Auth", "AuthInfo", "AuthCookies", "DeleteAuth"}
       /\ resp.body.kind # "ErrorResp"
       => resp.status = 200

\* C15's case: Auth failed at GetLastEvent, after the Session was registered
C15_Witness ==
  /\ call.op = "Auth" /\ AuthFailedAt(call) = "GetLastEvent"
  /\ call.sid \in DOMAIN sessions
  /\ resp.status = 500 /\ resp.body.kind = "ErrorResp"

\* C16: the onClose closure of Session s removes the registry entry keyed by
\* s.ID and no other, and then calls DeleteAllEvents(s.UserID), once, exactly
\* when no entry that remains has s.UserID; it calls it for no other user.
C16_TeardownCallback ==
  [][ call'.op = "onClose"
        => /\ call'.sid \in DOMAIN sessions
           /\ call'.user = sessions[call'.sid].UserID
           /\ DOMAIN sessions' = (DOMAIN sessions) \ {call'.sid}
           /\ \A id \in DOMAIN sessions' : sessions'[id] = sessions[id]
           /\ \A u \in Users :
                deletedEvents'[u] =
                  IF u = call'.user
                       /\ ~\E id \in DOMAIN sessions' : sessions'[id].UserID = u
                    THEN deletedEvents[u] + 1
                    ELSE deletedEvents[u] ]_vars

\* C16's case: the closure ran for the last Session of its user while a
\* Session of another user stays registered
C16_Witness ==
  /\ call.op = "onClose"
  /\ sessions # EmptyRegistry
  /\ ~HasSessionOf(sessions, call.user)
  /\ deletedEvents[call.user] = 1
  /\ \A u \in Users \ {call.user} : deletedEvents[u] = 0

\* C17: the registry starts empty, and an entry appears in it only in an Auth
\* call whose backend.Auth and populateCurrentUser both succeeded: the entry is
\* the call's Session, keyed by its ID, with the UserID of the verified user.
\* AuthInfo, AuthCookies and DeleteAuth add none.
C17_OnlyAuthRegisters ==
  /\ sessions = EmptyRegistry
  /\ [][ \A id \in (DOMAIN sessions') \ (DOMAIN sessions) :
           /\ call'.op = "Auth"
           /\ call'.answers.credErr = "" /\ call'.answers.popErr = ""
           /\ Made(call', "backend.Auth") /\ Made(call', "populateCurrentUser")
           /\ id = call'.sid
           /\ sessions'[id].ID = id
           /\ sessions'[id].UserID = call'.user /\ call'.user \in Users ]_vars

\* C17's case: a second successful Auth of the same user adds a second entry
C17_Witness ==
  /\ call.op = "Auth" /\ AuthFailedAt(call) = ""
  /\ call.sid \in DOMAIN sessions
  /\ sessions[call.sid].UserID = call.user
  /\ \E id \in (DOMAIN sessions) \ {call.sid} : sessions[id].UserID = call.user

\* The number of fields of the header value v when it is cut at every space
Fields(v) == Cardinality({j \in 1..Len(v) : v[j] = " "}) + 1

\* C18: for a live Session, AuthCookies rejects with invalid_authorization, and
\* without cookie, every Authorization value that is not exactly two fields
\* separated by one space: one field or none, and three or more, such as
\* "Bearer T extra" where T is the Session's token.
C18_ExactlyTwoFields ==
  (PromotesLive /\ Len(call.header) > 0 /\ Fields(call.header[1]) # 2)
    => Rejected("invalid_authorization")

\* C18's case: "Bearer T extra" with the Session's own token T is rejected
C18_Witness ==
  /\ PromotesLive
  /\ call.header = <<BearerHeader(sessions[call.sid].Token) \o <<" ", "extra">>>>
  /\ Rejected("invalid_authorization")

\* Every step of the Auth call succeeded
AuthSucceeded(c) == c.op = "Auth" /\ AuthFailedAt(c) = ""

\* C19: Auth answers success exactly when backend.Auth, populateCurrentUser,
\* the key lookup, Encrypt and GetLastEvent all succeeded. The success body has
\* AccessToken = the Session's token encrypted under the first key of the main
\* address (not the token itself), TokenType Bearer, Uid = the Session's ID,
\* PrivateKey = that key's private key, EventID = the last event's ID.
C19_AuthSuccess ==
  call.op = "Auth"
    => /\ (resp.status = 200 /\ resp.body.ResponseCode = "Ok") <=> AuthSucceeded(call)
       /\ resp.body.kind = "AuthResp" <=> AuthSucceeded(call)
       /\ AuthSucceeded(call)
            => LET session == sessions[call.sid]
                   kp == MainAddressKeys(call.user, call.answers.nKeys)[1]
               IN /\ session.UserID = call.user
                  /\ resp.body.AccessToken = Encrypt(kp, session.Token)
                  /\ resp.body.AccessToken # session.Token
                  /\ resp.body.TokenType = TokenBearer
                  /\ resp.body.Uid = session.ID
                  /\ resp.body.PrivateKey = kp.PrivateKey
                  /\ resp.body.EventID = call.answers.ev

\* C19's case: a successful Auth of a user whose main address has two keys
C19_Witness ==
  /\ AuthSucceeded(call)
  /\ call.answers.nKeys = MaxKeys
  /\ resp.body.ResponseCode = "Ok"
  /\ resp.body.PrivateKey = KeyOf(call.user, 1).PrivateKey

\* The calls of the four handlers
HandlerOps == {"Auth", "AuthInfo", "AuthCookies", "DeleteAuth"}

\* C20: DeleteAuth leaves every registry entry whose ID is not "sessionToken"
\* as it was, runs no onClose and calls DeleteAllEvents for nobody; and while no
\* Session has the ID "sessionToken", no call of Auth, AuthInfo, AuthCookies or
\* DeleteAuth makes the registry smaller.
C20_RevocationKeepsRegistry ==
  [][ /\ call'.op = "DeleteAuth"
        => /\ \A id \in (DOMAIN sessions) \ {"sessionToken"} :
                id \in DOMAIN sessions' /\ sessions'[id] = sessions[id]
           /\ closeCount' = closeCount
           /\ deletedEvents' = deletedEvents
      /\ (call'.op \in HandlerOps /\ "sessionToken" \notin DOMAIN sessions)
        => /\ (DOMAIN sessions) \subseteq (DOMAIN sessions')
           /\ Cardinality(DOMAIN sessions') >= Cardinality(DOMAIN sessions) ]_vars

\* C20's case: DeleteAuth was called with the token of one of two live Sessions,
\* and both are still registered, their onClose not run
C20_Witness ==
  /\ call.op = "DeleteAuth"
  /\ Cardinality(DOMAIN sessions) = MaxSessions
  /\ \E id \in DOMAIN sessions : sessions[id].Token = call.token
  /\ \A id \in DOMAIN sessions : closeCount[id] = 0

====
